---- MODULE Spec2Model ----
(***************************************************************************)
(* Ad detector: scene scoring (frame_classifier.py), the thread-pool       *)
(* analysis and the hysteresis decision (gui.py), the analysis Worker.     *)
(*                                                                         *)
(* Time is counted in ticks of a quarter of a second, so the 0.5 s         *)
(* frame_interval is 2 ticks and a scene can be shorter than the interval. *)
(* Floats are modelled as exact rationals <<numerator, denominator>> with  *)
(* a positive denominator, kept in lowest terms.                           *)
(***************************************************************************)
EXTENDS Integers, Sequences, FiniteSets, TLC

\* ---------------------------------------------------------------- bounds
\* Largest timestamp (ticks) of a range handed to a scoring function.
MaxTime == 4
\* Largest duration (ticks) of a segmented video in the analysis.
MaxDuration == 3
\* Longest score sequence handed to the decision rule.
MaxScores == 3
\* The calls of load_model in one run of the program.
MaxLoads == 8

\* ------------------------------------------------------- program constants
\* frame_interval=0.5 seconds, in ticks.
frame_interval == 2
\* Class index 0 is the advertisement class (label == 0).
AdLabel == 0
\* The other class of the 2-class model output.
ContentLabel == 1
\* min(os.cpu_count() or 4, 4): the cap and the fallback.
PoolCap == 4

Labels == {AdLabel, ContentLabel}
None == "None"

\* ------------------------------------------------------------- rationals
RECURSIVE Gcd(_, _)
Gcd(a, b) ==
    IF b = 0 THEN a ELSE Gcd(b, a % b)

Abs(x) ==
    IF x < 0 THEN -x ELSE x

\* A float value n/d in lowest terms, d > 0.
Rat(n, d) ==
    LET s == IF d < 0 THEN -1 ELSE 1
        g == Gcd(Abs(n), Abs(d))
    IN  <<(s * n) \div g, (s * d) \div g>>

\* What a Python expression yields when a division in it raises
\* ZeroDivisionError: no value at all.
ZeroDivisionError == <<0, 0>>

Raised(v) ==
    v[2] = 0

RAdd(a, b) ==
    Rat(a[1] * b[2] + b[1] * a[2], a[2] * b[2])

RSub(a, b) ==
    Rat(a[1] * b[2] - b[1] * a[2], a[2] * b[2])

\* a * b; an operand whose evaluation raised raises.
RMul(a, b) ==
    IF Raised(a) \/ Raised(b) THEN ZeroDivisionError
    ELSE Rat(a[1] * b[1], a[2] * b[2])

\* a / b on Python numbers: raises when b is zero.
RDiv(a, b) ==
    IF Raised(a) \/ Raised(b) \/ b[1] = 0 THEN ZeroDivisionError
    ELSE Rat(a[1] * b[2], a[2] * b[1])

RGe(a, b) ==
    a[1] * b[2] >= b[1] * a[2]

RGt(a, b) ==
    a[1] * b[2] > b[1] * a[2]

RZero == <<0, 1>>
RHundred == <<100, 1>>

\* ------------------------------------------------------------------ state
VARIABLES
    video,       \* the label the model predicts for the frame at each tick
    openable,    \* whether the video file can be opened
    task,        \* the scoring calls: their locals, handle and outcome
    pc,          \* where the analysis thread (Worker.run) stands
    is_running,  \* Worker._is_running, the keep-running flag
    model_swin,  \* what load_model("Swin") returned
    scenes,      \* what detect_scenes returned
    max_workers, \* the size of the ThreadPoolExecutor
    futures,     \* the futures submitted, as indices into task
    idx,         \* the position of the running for loop
    preds,       \* the score map, (start, end) -> score
    scores,      \* the scores aligned with scenes
    preds_final, \* the ad ranges appended so far
    ret,         \* what _analyze_video returned
    exc,         \* the exception _analyze_video raised
    emitted,     \* the signals the Worker emitted, in order
    PRELOADED_MODELS, \* per imported copy of model_loader: the cached model
    weights_ok,  \* whether torch.load / load_state_dict succeed on the file
    models,      \* how many models timm.create_model has constructed
    loads,       \* the calls of load_model so far, with what they returned
    controls,    \* whether the select and analyse buttons are enabled
    worker,      \* VideoAnalyzerApp.worker: None or the Worker
    handled,     \* how many of the emitted signals have had their slot run
    threads      \* how many Worker threads are inside run()

\* The state of the analysis thread.
avars == <<pc, is_running, model_swin, scenes, max_workers, futures, idx,
           preds, scores, preds_final, ret, exc, emitted>>

\* The state of the model loader.
lvars == <<PRELOADED_MODELS, weights_ok, models, loads>>

\* The state of the window.
gvars == <<controls, worker, handled, threads>>

vars == <<video, openable, task, avars, lvars, gvars>>

\* cap = cv2.VideoCapture(video_path): never raises; the handle is unopened
\* when the source cannot be opened.
VideoCapture(ok) ==
    IF ok THEN "open" ELSE "unopened"

\* cap.set(CAP_PROP_POS_MSEC, t); ret, frame = cap.read(): ret is False on an
\* unopened handle and past the last frame.
ReadOk(cap, t) ==
    cap = "open" /\ t >= 0 /\ t < Len(video)

\* The frame classify_frame sees at tick t, as the label the model gives it.
FrameLabel(t) ==
    video[t + 1]

\* The locals of a scoring call before its first statement.
NewTask(fn, model, start_time, end_time) ==
    [fn |-> fn, model |-> model, pc |-> "queued",
     start_time |-> start_time, end_time |-> end_time,
     cap |-> "none", handle |-> 0, isOpened |-> FALSE,
     current_time |-> start_time,
     total_frames |-> 0, ad_frames |-> 0, frame_count |-> 0,
     total_weight |-> RZero, total_weighted_value |-> RZero,
     samples |-> <<>>, weights |-> <<>>,
     result |-> None, exc |-> None]

\* The capture objects constructed so far, as their identities.
Handles ==
    {task[i].handle : i \in DOMAIN task} \ {0}

\* Mutant: the capture object opened by the first call is kept and shared by
\* every later call.
NewHandle_shared ==
    IF Handles = {} THEN Cardinality(Handles) + 1
    ELSE CHOOSE h \in Handles : TRUE

\* cv2.VideoCapture(...) constructs a new capture object on every call; the
\* local `cap` of the call is the only reference to it.
NewHandle ==
    Cardinality(Handles) + 1

\* Mutant: sampling starts at the beginning of the video instead of the
\* beginning of the range.
EnterScore_from_zero(t) ==
    [t EXCEPT !.pc = "running", !.cap = VideoCapture(openable),
              !.handle = NewHandle, !.isOpened = openable,
              !.current_time = 0]

\* The statements before the while loop: open the handle, zero the counters.
EnterScore(t) ==
    [t EXCEPT !.pc = "running", !.cap = VideoCapture(openable),
              !.handle = NewHandle, !.isOpened = openable,
              !.current_time = t.start_time]

\* Mutant: the sample at range.end is left out.
LoopCond_exclusive(t) ==
    t.current_time < t.end_time

\* while current_time <= end_time
LoopCond(t) ==
    t.current_time <= t.end_time

\* Mutant: the fraction is returned without the scaling to a percentage.
ad_percentage_unscaled(ad_frames, total_frames) ==
    IF total_frames > 0
    THEN RDiv(Rat(ad_frames, 1), Rat(total_frames, 1))
    ELSE RZero

\* ad_percentage = (ad_frames / total_frames) * 100 if total_frames > 0 else 0.0
ad_percentage(ad_frames, total_frames) ==
    IF total_frames > 0
    THEN RMul(RDiv(Rat(ad_frames, 1), Rat(total_frames, 1)), RHundred)
    ELSE RZero

\* Mutant: the position is measured back from the end of the range, so that
\* earlier samples weigh more.
frame_position_from_end(current_time, start_time, duration) ==
    LET p == RDiv(Rat(current_time - start_time, 1), Rat(duration, 1))
    IN  IF Raised(p) THEN p ELSE RSub(<<1, 1>>, p)

\* frame_position = (current_time - start_time) / segment_duration
frame_position(current_time, start_time, duration) ==
    RDiv(Rat(current_time - start_time, 1), Rat(duration, 1))

\* Mutant: the guard against an empty weight sum is dropped.
weighted_ad_percentage_unguarded(total_weighted_value, total_weight) ==
    RMul(RDiv(total_weighted_value, total_weight), RHundred)

\* weighted_ad_percentage =
\*   (total_weighted_value / total_weight) * 100 if total_weight > 0 else 0.0
weighted_ad_percentage(total_weighted_value, total_weight) ==
    IF RGt(total_weight, RZero)
    THEN RMul(RDiv(total_weighted_value, total_weight), RHundred)
    ELSE RZero

\* ------------------------------------------- process_video_segments_after_
\* One pass of the loop body with a frame read and classified as `label`.
after_Step(t, label) ==
    [t EXCEPT !.total_frames = @ + 1,
              !.ad_frames = IF label = AdLabel THEN @ + 1 ELSE @,
              !.current_time = @ + frame_interval,
              !.frame_count = @ + 1,
              !.samples = Append(@, <<t.current_time, label>>)]

\* Loop exit (condition false, or `if not ret: break`), cap.release(), return.
after_Exit(t) ==
    LET v == ad_percentage(t.ad_frames, t.total_frames)
    IN  IF Raised(v)
        THEN [t EXCEPT !.cap = "released", !.pc = "raised",
                       !.exc = "ZeroDivisionError"]
        ELSE [t EXCEPT !.cap = "released", !.pc = "done", !.result = v]

\* An exception leaves the scoring function at once (no finally, no release).
ScoreRaise(t, e) ==
    [t EXCEPT !.pc = "raised", !.exc = e]

\* model(image_tensor): a model that is None cannot be called.
Callable(t) ==
    t.model # None

\* What classify_frame raises when it raises: TypeError on a None model,
\* else a preprocessing or inference error.
ClassifyError(t) ==
    IF Callable(t) THEN "ClassificationFailed" ELSE "TypeError"

after_Sample(i) ==
    /\ task[i].fn = "after_" /\ task[i].pc = "running"
    /\ LoopCond(task[i])
    /\ ReadOk(task[i].cap, task[i].current_time)
    /\ Callable(task[i])
    /\ task' = [task EXCEPT
                  ![i] = after_Step(@, FrameLabel(task[i].current_time))]
    /\ UNCHANGED <<gvars, lvars, video, openable, avars>>

after_ClassifyRaises(i) ==
    /\ task[i].fn = "after_" /\ task[i].pc = "running"
    /\ LoopCond(task[i])
    /\ ReadOk(task[i].cap, task[i].current_time)
    /\ task' = [task EXCEPT ![i] = ScoreRaise(@, ClassifyError(task[i]))]
    /\ UNCHANGED <<gvars, lvars, video, openable, avars>>

after_Return(i) ==
    /\ task[i].fn = "after_" /\ task[i].pc = "running"
    /\ ~(LoopCond(task[i]) /\ ReadOk(task[i].cap, task[i].current_time))
    /\ task' = [task EXCEPT ![i] = after_Exit(@)]
    /\ UNCHANGED <<gvars, lvars, video, openable, avars>>

\* -------------------------------------------------- process_video_segments
plain_Step(t, label) ==
    [t EXCEPT !.total_frames = @ + 1,
              !.ad_frames = IF label = AdLabel THEN @ + 1 ELSE @,
              !.current_time = @ + frame_interval,
              !.frame_count = @ + 1,
              !.samples = Append(@, <<t.current_time, label>>)]

plain_Exit(t) ==
    LET v == ad_percentage(t.ad_frames, t.total_frames)
    IN  IF Raised(v)
        THEN [t EXCEPT !.cap = "released", !.pc = "raised",
                       !.exc = "ZeroDivisionError"]
        ELSE [t EXCEPT !.cap = "released", !.pc = "done", !.result = v]

plain_Sample(i) ==
    /\ task[i].fn = "plain" /\ task[i].pc = "running"
    /\ LoopCond(task[i])
    /\ ReadOk(task[i].cap, task[i].current_time)
    /\ Callable(task[i])
    /\ task' = [task EXCEPT
                  ![i] = plain_Step(@, FrameLabel(task[i].current_time))]
    /\ UNCHANGED <<gvars, lvars, video, openable, avars>>

plain_ClassifyRaises(i) ==
    /\ task[i].fn = "plain" /\ task[i].pc = "running"
    /\ LoopCond(task[i])
    /\ ReadOk(task[i].cap, task[i].current_time)
    /\ task' = [task EXCEPT ![i] = ScoreRaise(@, ClassifyError(task[i]))]
    /\ UNCHANGED <<gvars, lvars, video, openable, avars>>

plain_Return(i) ==
    /\ task[i].fn = "plain" /\ task[i].pc = "running"
    /\ ~(LoopCond(task[i]) /\ ReadOk(task[i].cap, task[i].current_time))
    /\ task' = [task EXCEPT ![i] = plain_Exit(@)]
    /\ UNCHANGED <<gvars, lvars, video, openable, avars>>

\* ------------------------------------------- process_video_segments_weigth
\* segment_duration = end_time - start_time
segment_duration(t) ==
    t.end_time - t.start_time

\* weight = frame_position, for the sample at current_time.
weight(t) ==
    frame_position(t.current_time, t.start_time, segment_duration(t))

\* One pass of the loop body, the weight having been computed.
weigth_Step(t, label) ==
    LET w == weight(t)
    IN  [t EXCEPT !.total_weight = RAdd(@, w),
                  !.total_weighted_value =
                      IF label = AdLabel THEN RAdd(@, w) ELSE @,
                  !.current_time = @ + frame_interval,
                  !.samples = Append(@, <<t.current_time, label>>),
                  !.weights = Append(@, w)]

weigth_Exit(t) ==
    LET v == weighted_ad_percentage(t.total_weighted_value, t.total_weight)
    IN  IF Raised(v)
        THEN [t EXCEPT !.cap = "released", !.pc = "raised",
                       !.exc = "ZeroDivisionError"]
        ELSE [t EXCEPT !.cap = "released", !.pc = "done", !.result = v]

weigth_Sample(i) ==
    /\ task[i].fn = "weigth" /\ task[i].pc = "running"
    /\ LoopCond(task[i])
    /\ ReadOk(task[i].cap, task[i].current_time)
    /\ Callable(task[i])
    /\ ~Raised(weight(task[i]))
    /\ task' = [task EXCEPT
                  ![i] = weigth_Step(@, FrameLabel(task[i].current_time))]
    /\ UNCHANGED <<gvars, lvars, video, openable, avars>>

\* (current_time - start_time) / segment_duration with segment_duration = 0.0:
\* Python float division raises ZeroDivisionError, before classify_frame.
weigth_ZeroDivision(i) ==
    /\ task[i].fn = "weigth" /\ task[i].pc = "running"
    /\ LoopCond(task[i])
    /\ ReadOk(task[i].cap, task[i].current_time)
    /\ Raised(weight(task[i]))
    /\ task' = [task EXCEPT ![i] = ScoreRaise(@, "ZeroDivisionError")]
    /\ UNCHANGED <<gvars, lvars, video, openable, avars>>

weigth_ClassifyRaises(i) ==
    /\ task[i].fn = "weigth" /\ task[i].pc = "running"
    /\ LoopCond(task[i])
    /\ ReadOk(task[i].cap, task[i].current_time)
    /\ ~Raised(weight(task[i]))
    /\ task' = [task EXCEPT ![i] = ScoreRaise(@, ClassifyError(task[i]))]
    /\ UNCHANGED <<gvars, lvars, video, openable, avars>>

weigth_Return(i) ==
    /\ task[i].fn = "weigth" /\ task[i].pc = "running"
    /\ ~(LoopCond(task[i]) /\ ReadOk(task[i].cap, task[i].current_time))
    /\ task' = [task EXCEPT ![i] = weigth_Exit(@)]
    /\ UNCHANGED <<gvars, lvars, video, openable, avars>>

\* ============================================================ model_loader
\* The two copies of model_loader.py the process imports: main.py imports
\* `model_loader`, gui.py imports `app.model_loader`; each copy runs the module
\* body and has its own PRELOADED_MODELS.
Modules == {"model_loader", "app.model_loader"}

\* PRELOADED_MODELS = {}: no model cached (0 stands for a missing key, model
\* objects are numbered from 1).
NoLoads ==
    /\ PRELOADED_MODELS = [m \in Modules |-> 0]
    /\ models = 0
    /\ loads = <<>>

\* load_model("Swin") in the copy m of the module: the cached model when the
\* name is a key of PRELOADED_MODELS; else a model is constructed (line 31),
\* the weights are loaded into it, and it is cached and returned, or None
\* (0) is returned when loading raised.
load_model(m) ==
    IF PRELOADED_MODELS[m] # 0
    THEN /\ loads' = Append(loads, [module |-> m, constructed |-> FALSE,
                                    returned |-> PRELOADED_MODELS[m]])
         /\ UNCHANGED <<PRELOADED_MODELS, models>>
    ELSE /\ models' = models + 1
         /\ PRELOADED_MODELS' =
                IF weights_ok
                THEN [PRELOADED_MODELS EXCEPT ![m] = models + 1]
                ELSE PRELOADED_MODELS
         /\ loads' = Append(loads, [module |-> m, constructed |-> TRUE,
                                    returned |-> IF weights_ok
                                                 THEN models + 1 ELSE 0])

\* main.py line 9: preload_all_models(), of the copy `model_loader`, calls
\* load_model for the one name of AVAILABLE_MODELS before the window exists.
preload_all_models ==
    /\ loads = <<>>
    /\ load_model("model_loader")
    /\ UNCHANGED <<gvars, weights_ok, video, openable, task, avars>>

\* gui.py line 185: every analysis calls load_model("Swin") of the copy
\* `app.model_loader`.
AnalysisLoad ==
    /\ loads # <<>>
    /\ Len(loads) < MaxLoads
    /\ load_model("app.model_loader")
    /\ UNCHANGED <<gvars, weights_ok, video, openable, task, avars>>

\* The weights file is put in place, removed or damaged between two calls.
WeightsChange ==
    /\ weights_ok' = ~weights_ok
    /\ UNCHANGED <<gvars, PRELOADED_MODELS, models, loads, video, openable, task,
                   avars>>

\* ------------------------------------- the scoring functions on any input
ScoreFns == {"plain", "weigth", "after_"}

\* Every video of at most MaxTime + 1 ticks.
Videos ==
    UNION {[1..n -> Labels] : n \in 0..(MaxTime + 1)}

\* Every range with start <= end, the degenerate ones included.
Ranges ==
    {r \in (0..MaxTime) \X (0..MaxTime) : r[1] <= r[2]}

\* VideoAnalyzerApp.__init__: no worker, the buttons enabled.
NoWorker ==
    /\ controls = TRUE /\ worker = None /\ handled = 0 /\ threads = 0

\* The analysis thread before _start_analysis.
NoAnalysis ==
    /\ pc = "idle" /\ is_running = FALSE /\ model_swin = None
    /\ scenes = <<>> /\ max_workers = 0 /\ futures = <<>> /\ idx = 0
    /\ preds = <<>> /\ scores = <<>> /\ preds_final = <<>>
    /\ ret = <<>> /\ exc = None /\ emitted = <<>>

InitScore ==
    /\ NoLoads /\ weights_ok = TRUE
    /\ NoWorker
    /\ video \in Videos
    /\ openable \in BOOLEAN
    /\ \E fn \in ScoreFns, r \in Ranges :
           task = <<NewTask(fn, "Swin", r[1], r[2])>>
    /\ NoAnalysis

\* The call itself: the caller enters the function.
ScoreCall(i) ==
    /\ task[i].pc = "queued"
    /\ task' = [task EXCEPT ![i] = EnterScore(@)]
    /\ UNCHANGED <<gvars, lvars, video, openable, avars>>

NextScore ==
    \/ \E i \in DOMAIN task : ScoreCall(i)
    \/ \E i \in DOMAIN task : after_Sample(i)
    \/ \E i \in DOMAIN task : after_ClassifyRaises(i)
    \/ \E i \in DOMAIN task : after_Return(i)
    \/ \E i \in DOMAIN task : plain_Sample(i)
    \/ \E i \in DOMAIN task : plain_ClassifyRaises(i)
    \/ \E i \in DOMAIN task : plain_Return(i)
    \/ \E i \in DOMAIN task : weigth_Sample(i)
    \/ \E i \in DOMAIN task : weigth_ZeroDivision(i)
    \/ \E i \in DOMAIN task : weigth_ClassifyRaises(i)
    \/ \E i \in DOMAIN task : weigth_Return(i)

SpecScore == InitScore /\ [][NextScore]_vars

\* ------------------------------------------ the loader over a program run
\* The process at start-up: nothing imported has loaded a model yet.
InitLoad ==
    /\ NoLoads /\ weights_ok \in BOOLEAN
    /\ NoWorker
    /\ video = <<>> /\ openable = TRUE /\ task = <<>>
    /\ NoAnalysis

NextLoad ==
    \/ preload_all_models
    \/ AnalysisLoad
    \/ WeightsChange

SpecLoad == InitLoad /\ [][NextLoad]_vars

\* ============================================================ the analysis
\* ------------------------------------------------------------ detect_scenes
RECURSIVE Partitions(_, _)
\* The lists of contiguous scenes that cover [a, d], each at least a tick long.
Partitions(a, d) ==
    IF a >= d THEN {<<>>}
    ELSE UNION {{<<<<a, b>>>> \o rest : rest \in Partitions(b, d)} :
                b \in (a + 1)..d}

\* scene_manager.get_scene_list() for a video of duration d: its scenes in
\* order, or no scene at all.
SceneLists(d) ==
    {<<>>} \cup Partitions(0, d)

\* The duration the segmenter reports for the video: its last frame may or
\* may not be readable at the end timestamp of the last scene.
Durations ==
    {d \in {Len(video) - 1, Len(video)} : d >= 0 /\ d <= MaxDuration}

\* ------------------------------------------------- Worker and its thread
\* closeEvent has stopped the worker and the GUI thread is in worker.wait()
\* or has left the event loop: no slot runs and no button is clicked.
Closed ==
    worker # None /\ ~is_running

\* _start_analysis, the slot of the analyse button, with a video selected:
\* _disable_controls(); self.worker = Worker(self._analyze_video); the three
\* connects; worker.start(). The new thread starts with locals of its own.
StartAnalysis ==
    /\ controls /\ ~Closed
    /\ controls' = FALSE
    /\ worker' = "Worker"
    /\ is_running' = TRUE
    /\ emitted' = <<>> /\ handled' = 0
    /\ threads' = threads + 1
    /\ pc' = "run"
    /\ task' = <<>> /\ model_swin' = None /\ scenes' = <<>>
    /\ max_workers' = 0 /\ futures' = <<>> /\ idx' = 0
    /\ preds' = <<>> /\ scores' = <<>> /\ preds_final' = <<>>
    /\ ret' = <<>> /\ exc' = None
    /\ UNCHANGED <<lvars, video, openable>>

\* closeEvent with a worker: self.worker.stop(), at any moment of the
\* worker's life, then self.worker.wait().
Stop ==
    /\ worker # None
    /\ is_running
    /\ is_running' = FALSE
    /\ UNCHANGED <<gvars, lvars, video, openable, task, pc, model_swin, scenes,
                   max_workers, futures, idx, preds, scores, preds_final, ret,
                   exc, emitted>>

\* Worker.run, lines 57-60: return at once when stopped, else call the
\* analysis.
RunEntry ==
    /\ pc = "run"
    /\ pc' = IF is_running THEN "load_model" ELSE "finally"
    /\ UNCHANGED <<gvars, lvars, video, openable, task, is_running, model_swin, scenes,
                   max_workers, futures, idx, preds, scores, preds_final, ret,
                   exc, emitted>>

\* model_swin = model_loader.load_model("Swin"): the model, or None when the
\* weights cannot be loaded.
LoadModel ==
    /\ pc = "load_model"
    /\ \E m \in {"Swin", None} : model_swin' = m
    /\ pc' = "detect_scenes"
    /\ UNCHANGED <<gvars, lvars, video, openable, task, is_running, scenes, max_workers,
                   futures, idx, preds, scores, preds_final, ret, exc, emitted>>

\* scenes = detect_scenes(self.video_path); if not scenes: return [].
DetectScenes ==
    /\ pc = "detect_scenes"
    /\ IF ~openable
       THEN /\ exc' = "SourceUnavailable"
            /\ pc' = "raised"
            /\ UNCHANGED scenes
       ELSE /\ \E d \in Durations : \E sl \in SceneLists(d) : scenes' = sl
            /\ pc' = IF scenes' = <<>> THEN "returned" ELSE "pool"
            /\ UNCHANGED exc
    /\ UNCHANGED <<gvars, lvars, video, openable, task, is_running, model_swin, max_workers,
                   futures, idx, preds, scores, preds_final, ret, emitted>>

\* The video file stops being readable (removed, unmounted, locked) after
\* the segmentation has read it and before the scoring tasks open it.
SourceLost ==
    /\ pc = "pool"
    /\ openable
    /\ openable' = FALSE
    /\ UNCHANGED <<gvars, lvars, video, task, avars>>

\* What os.cpu_count() may return; 0 stands for None.
CpuCounts == 0..(PoolCap + 1)

\* min(os.cpu_count() or 4, 4)
PoolSize(cpu_count) ==
    LET n == IF cpu_count = 0 THEN PoolCap ELSE cpu_count
    IN  IF n < PoolCap THEN n ELSE PoolCap

\* with ThreadPoolExecutor(max_workers=...) as executor: futures = []
OpenPool ==
    /\ pc = "pool"
    /\ \E c \in CpuCounts : max_workers' = PoolSize(c)
    /\ futures' = <<>>
    /\ idx' = 1
    /\ pc' = "submit"
    /\ UNCHANGED <<gvars, lvars, video, openable, task, is_running, model_swin, scenes,
                   preds, scores, preds_final, ret, exc, emitted>>

\* One pass of `for scene in scenes` (lines 192-202), or its end; preds = {}.
Submit ==
    /\ pc = "submit"
    /\ IF idx > Len(scenes) \/ ~is_running
       THEN /\ pc' = "collect"
            /\ idx' = 1
            /\ preds' = <<>>
            /\ UNCHANGED <<task, futures>>
       ELSE /\ task' = Append(task, NewTask("after_", model_swin,
                                            scenes[idx][1], scenes[idx][2]))
            /\ futures' = Append(futures, Len(task) + 1)
            /\ idx' = idx + 1
            /\ UNCHANGED <<pc, preds>>
    /\ UNCHANGED <<gvars, lvars, video, openable, is_running, model_swin, scenes,
                   max_workers, scores, preds_final, ret, exc, emitted>>

\* The tasks a pool thread is running.
Running ==
    {i \in DOMAIN task : task[i].pc = "running"}

\* A pool thread takes the oldest queued work item; at most max_workers
\* threads exist.
TaskStart(i) ==
    /\ pc \notin {"idle", "end"}
    /\ task[i].pc = "queued"
    /\ \A j \in DOMAIN task : j < i => task[j].pc # "queued"
    /\ Cardinality(Running) < max_workers
    /\ task' = [task EXCEPT ![i] = EnterScore(@)]
    /\ UNCHANGED <<gvars, lvars, video, openable, avars>>

\* A task has run to its end, one way or the other.
Finished(t) ==
    t.pc \in {"done", "raised"}

\* Mutant: the exception of a failed task is swallowed.
FutureRaises_swallowed(t) ==
    FALSE

\* future.result() re-raises the exception of a task that raised.
FutureRaises(t) ==
    t.pc = "raised"

\* detect_ad_scenes_from_segments_and_get_all_results on [scene]: the
\* result_dict with the one key (start, end); a task that raised has none.
FutureResult(t) ==
    IF t.pc = "done"
    THEN [k \in {<<t.start_time, t.end_time>>} |-> t.result]
    ELSE <<>>

\* Mutant: the map is replaced by each result instead of merged with it.
update_replace(d, other) ==
    other

\* dict.update
update(d, other) ==
    [k \in DOMAIN d \cup DOMAIN other |->
        IF k \in DOMAIN other THEN other[k] ELSE d[k]]

\* One pass of `for future in futures` (lines 205-208), or its end.
Collect ==
    /\ pc = "collect"
    /\ IF idx > Len(futures) \/ ~is_running
       THEN /\ pc' = "shutdown"
            /\ UNCHANGED <<idx, preds, exc>>
       ELSE /\ Finished(task[futures[idx]])
            /\ IF FutureRaises(task[futures[idx]])
               THEN /\ exc' = task[futures[idx]].exc
                    /\ pc' = "shutdown"
                    /\ UNCHANGED <<idx, preds>>
               ELSE /\ preds' = update(preds, FutureResult(task[futures[idx]]))
                    /\ idx' = idx + 1
                    /\ UNCHANGED <<pc, exc>>
    /\ UNCHANGED <<gvars, lvars, video, openable, task, is_running, model_swin, scenes,
                   max_workers, futures, scores, preds_final, ret, emitted>>

\* Mutant: the pool is left with shutdown(wait=False).
shutdown_nowait ==
    TRUE

\* ThreadPoolExecutor.__exit__ is shutdown(wait=True): it joins the pool
\* threads, which end when every submitted work item has run.
shutdown ==
    \A i \in DOMAIN task : Finished(task[i])

\* Leaving the with block, on the normal path, after a break and with an
\* exception pending alike; a pending exception then goes on to the except
\* clause (log, raise).
Shutdown ==
    /\ pc = "shutdown"
    /\ shutdown
    /\ pc' = IF exc # None THEN "raised" ELSE "check"
    /\ UNCHANGED <<gvars, lvars, video, openable, task, is_running, model_swin, scenes,
                   max_workers, futures, idx, preds, scores, preds_final, ret,
                   exc, emitted>>

\* The keys of scenes that preds lacks (preds[(start, end)] raises KeyError).
MissingKeys ==
    {i \in 1..Len(scenes) : scenes[i] \notin DOMAIN preds}

\* scores = [preds[(start, end)] for (start, end) in scenes]
ScoresOf(p, sc) ==
    [i \in 1..Len(sc) |-> p[sc[i]]]

\* Lines 210-217: if not preds: return []; scores = [...]; preds_final = [].
CheckPreds ==
    /\ pc = "check"
    /\ IF DOMAIN preds = {}
       THEN /\ ret' = <<>>
            /\ pc' = "returned"
            /\ UNCHANGED <<scores, preds_final, idx, exc>>
       ELSE IF MissingKeys # {}
       THEN /\ exc' = "KeyError"
            /\ pc' = "raised"
            /\ UNCHANGED <<scores, preds_final, idx, ret>>
       ELSE /\ scores' = ScoresOf(preds, scenes)
            /\ preds_final' = <<>>
            /\ idx' = 1
            /\ pc' = "decide"
            /\ UNCHANGED <<ret, exc>>
    /\ UNCHANGED <<gvars, lvars, video, openable, task, is_running, model_swin, scenes,
                   max_workers, futures, preds, emitted>>

\* base_thresh = 12.5
base_thresh == Rat(25, 2)
\* boost = 10
boost == Rat(10, 1)

\* Mutant: the previous scene counts as an ad neighbour when the loop has
\* just classified it as an ad, whatever its raw score.
prev_ad_by_verdict(s, i) ==
    i > 1 /\ \E k \in DOMAIN preds_final : preds_final[k] = scenes[i - 1]

\* prev_ad = i > 0 and scores[i - 1] >= base_thresh (i counted from 1 here)
prev_ad(s, i) ==
    i > 1 /\ RGe(s[i - 1], base_thresh)

\* next_ad = i < len(scores) - 1 and scores[i + 1] >= base_thresh
next_ad(s, i) ==
    i < Len(s) /\ RGe(s[i + 1], base_thresh)

\* is_isolated = not prev_ad and not next_ad
is_isolated(s, i) ==
    ~prev_ad(s, i) /\ ~next_ad(s, i)

\* Mutant: the score must exceed the threshold.
_is_advertisement_strict(model_score, base, bst, isolated) ==
    LET adjusted_thresh == IF isolated THEN base ELSE RSub(base, bst)
    IN  RGt(model_score, adjusted_thresh)

\* adjusted_thresh = base_thresh if is_isolated else base_thresh - boost
\* return model_score >= adjusted_thresh
_is_advertisement(model_score, base, bst, isolated) ==
    LET adjusted_thresh == IF isolated THEN base ELSE RSub(base, bst)
    IN  RGe(model_score, adjusted_thresh)

\* Mutant: the range is put in front of the list.
PrependIfAd(final, is_ad, scene) ==
    IF is_ad THEN <<scene>> \o final ELSE final

\* if is_ad: preds_final.append(scenes[i])
AppendIfAd(final, is_ad, scene) ==
    IF is_ad THEN Append(final, scene) ELSE final

\* One pass of `for i, score in enumerate(scores)` (lines 218-234), or its
\* end and `return preds_final`.
Decide ==
    /\ pc = "decide"
    /\ IF idx > Len(scores) \/ ~is_running
       THEN /\ ret' = preds_final
            /\ pc' = "returned"
            /\ UNCHANGED <<preds_final, idx>>
       ELSE /\ preds_final' =
                  AppendIfAd(preds_final,
                             _is_advertisement(scores[idx], base_thresh, boost,
                                               is_isolated(scores, idx)),
                             scenes[idx])
            /\ idx' = idx + 1
            /\ UNCHANGED <<ret, pc>>
    /\ UNCHANGED <<gvars, lvars, video, openable, task, is_running, model_swin, scenes,
                   max_workers, futures, preds, scores, exc, emitted>>

\* Worker.run, line 61: if self._is_running:
ResultGuard ==
    /\ pc = "returned"
    /\ pc' = IF is_running THEN "emit_result" ELSE "finally"
    /\ UNCHANGED <<gvars, lvars, video, openable, task, is_running, model_swin,
                   scenes, max_workers, futures, idx, preds, scores,
                   preds_final, ret, exc, emitted>>

\* Worker.run, line 62: self.result.emit(res)
EmitResult ==
    /\ pc = "emit_result"
    /\ emitted' = Append(emitted, "result")
    /\ pc' = "finally"
    /\ UNCHANGED <<gvars, lvars, video, openable, task, is_running, model_swin,
                   scenes, max_workers, futures, idx, preds, scores,
                   preds_final, ret, exc>>

\* Worker.run, lines 63-65: except Exception as e: ... if self._is_running:
ErrorGuard ==
    /\ pc = "raised"
    /\ pc' = IF is_running THEN "emit_error" ELSE "finally"
    /\ UNCHANGED <<gvars, lvars, video, openable, task, is_running, model_swin,
                   scenes, max_workers, futures, idx, preds, scores,
                   preds_final, ret, exc, emitted>>

\* Worker.run, line 66: self.error.emit(str(e))
EmitError ==
    /\ pc = "emit_error"
    /\ emitted' = Append(emitted, "error")
    /\ pc' = "finally"
    /\ UNCHANGED <<gvars, lvars, video, openable, task, is_running, model_swin,
                   scenes, max_workers, futures, idx, preds, scores,
                   preds_final, ret, exc>>

\* Worker.run, lines 67-68: finally: if self._is_running: ; run() ends here
\* when the flag is cleared.
Finally ==
    /\ pc = "finally"
    /\ pc' = IF is_running THEN "emit_finished" ELSE "end"
    /\ threads' = IF is_running THEN threads ELSE threads - 1
    /\ UNCHANGED <<controls, worker, handled>>
    /\ UNCHANGED <<lvars, video, openable, task, is_running, model_swin,
                   scenes, max_workers, futures, idx, preds, scores,
                   preds_final, ret, exc, emitted>>

\* Worker.run, line 69: self.finished.emit(), and run() ends.
EmitFinished ==
    /\ pc = "emit_finished"
    /\ emitted' = Append(emitted, "finished")
    /\ pc' = "end"
    /\ threads' = threads - 1
    /\ UNCHANGED <<controls, worker, handled>>
    /\ UNCHANGED <<lvars, video, openable, task, is_running, model_swin,
                   scenes, max_workers, futures, idx, preds, scores,
                   preds_final, ret, exc>>

\* ------------------------------------------------- the slots of the window
\* The signal whose slot the GUI thread runs next: signals are queued to the
\* GUI thread and delivered in the order of emission while the window is open.
NextSignal ==
    IF handled < Len(emitted) /\ ~Closed THEN emitted[handled + 1] ELSE None

\* _on_analysis_result: shows the ranges; the buttons and the worker are left
\* alone.
_on_analysis_result ==
    /\ NextSignal = "result"
    /\ handled' = handled + 1
    /\ UNCHANGED <<controls, worker, threads, lvars, video, openable, task,
                   avars>>

\* _on_analysis_error: shows the message box.
_on_analysis_error ==
    /\ NextSignal = "error"
    /\ handled' = handled + 1
    /\ UNCHANGED <<controls, worker, threads, lvars, video, openable, task,
                   avars>>

\* _on_analysis_finished: self._enable_controls(); self.worker = None
_on_analysis_finished ==
    /\ NextSignal = "finished"
    /\ handled' = handled + 1
    /\ controls' = TRUE
    /\ worker' = None
    /\ UNCHANGED <<threads, lvars, video, openable, task, avars>>

\* Every video the analysis is run on.
AnalysisVideos ==
    UNION {[1..n -> Labels] : n \in 0..(MaxDuration + 1)}

Init ==
    /\ NoLoads /\ weights_ok = TRUE
    /\ NoWorker
    /\ video \in AnalysisVideos
    /\ openable \in BOOLEAN
    /\ task = <<>>
    /\ NoAnalysis

Next ==
    \/ StartAnalysis
    \/ Stop
    \/ RunEntry
    \/ LoadModel
    \/ DetectScenes
    \/ SourceLost
    \/ OpenPool
    \/ Submit
    \/ \E i \in DOMAIN task : TaskStart(i)
    \/ \E i \in DOMAIN task : after_Sample(i)
    \/ \E i \in DOMAIN task : after_ClassifyRaises(i)
    \/ \E i \in DOMAIN task : after_Return(i)
    \/ Collect
    \/ Shutdown
    \/ CheckPreds
    \/ Decide
    \/ ResultGuard
    \/ EmitResult
    \/ ErrorGuard
    \/ EmitError
    \/ Finally
    \/ EmitFinished
    \/ _on_analysis_result
    \/ _on_analysis_error
    \/ _on_analysis_finished

Spec == Init /\ [][Next]_vars


\* ------------------------------------- the decision rule on any score list
\* The scores the rule is tried on: 0, 2, 2.5, 3, 5, 12, 12.5, 13, 20, 50, 100.
ScoreValues ==
    {Rat(0, 1), Rat(2, 1), Rat(5, 2), Rat(3, 1), Rat(5, 1), Rat(12, 1),
     Rat(25, 2), Rat(13, 1), Rat(20, 1), Rat(50, 1), Rat(100, 1)}

\* n contiguous scenes of one tick each.
UnitScenes(n) ==
    [i \in 1..n |-> <<i - 1, i>>]

\* The analysis as it leaves the with block with a complete score map.
InitDecide ==
    /\ NoLoads /\ weights_ok = TRUE
    /\ controls = FALSE /\ worker = "Worker" /\ handled = 0 /\ threads = 1
    /\ video = <<>> /\ openable = TRUE /\ task = <<>>
    /\ pc = "check" /\ is_running = TRUE /\ model_swin = "Swin"
    /\ max_workers = PoolCap /\ futures = <<>> /\ idx = 1
    /\ \E n \in 1..MaxScores :
          /\ scenes = UnitScenes(n)
          /\ preds \in [{UnitScenes(n)[i] : i \in 1..n} -> ScoreValues]
    /\ scores = <<>> /\ preds_final = <<>>
    /\ ret = <<>> /\ exc = None /\ emitted = <<>>

NextDecide ==
    \/ CheckPreds
    \/ Decide
    \/ Stop
    \/ ResultGuard
    \/ EmitResult
    \/ Finally
    \/ EmitFinished

SpecDecide == InitDecide /\ [][NextDecide]_vars


\* ================================================= properties of the scorers
RECURSIVE AdCount(_)
\* The number of samples of a sample log that were labeled Ad.
AdCount(samples) ==
    IF samples = <<>> THEN 0
    ELSE AdCount(Tail(samples))
         + (IF Head(samples)[2] = AdLabel THEN 1 ELSE 0)

RECURSIVE OffsetSum(_, _, _)
\* The sum of (timestamp - start) over the samples, all of them or the Ad ones.
OffsetSum(samples, start, adOnly) ==
    IF samples = <<>> THEN 0
    ELSE OffsetSum(Tail(samples), start, adOnly)
         + (IF adOnly /\ Head(samples)[2] # AdLabel THEN 0
            ELSE Head(samples)[1] - start)

Unweighted(t) ==
    t.fn \in {"plain", "after_"}

\* No frame can be read at the start of the range of call t.
NoSample(t) ==
    ~ReadOk(VideoCapture(openable), t.start_time)

\* C3: in unweighted mode the samples carry the labels the classifier gave,
\* the score of a finished call that obtained samples is
\* 100 * (Ad samples) / (samples), and every score lies in [0, 100].
C3_UnweightedScore ==
    \A i \in DOMAIN task :
        LET t == task[i]
        IN  (Unweighted(t) /\ t.pc = "done") =>
              /\ \A k \in 1..Len(t.samples) :
                     t.samples[k][2] = FrameLabel(t.samples[k][1])
              /\ t.total_frames = Len(t.samples)
              /\ Len(t.samples) > 0 =>
                     t.result[1] * Len(t.samples)
                         = 100 * AdCount(t.samples) * t.result[2]
              /\ RGe(t.result, RZero) /\ RGe(RHundred, t.result)

\* C3 witness: an unweighted call finished on several samples of both labels.
C3_Witness ==
    \E i \in DOMAIN task :
        /\ Unweighted(task[i]) /\ task[i].pc = "done"
        /\ Len(task[i].samples) >= 3
        /\ AdCount(task[i].samples) = 1

\* C4: in weighted mode the weight of the sample at timestamp t is
\* (t - start) / (end - start), and a finished call whose weight sum is
\* positive returns 100 * (weight of the Ad samples) / (weight of all samples).
C4_WeightedScore ==
    \A i \in DOMAIN task :
        LET t == task[i]
            all == OffsetSum(t.samples, t.start_time, FALSE)
            ads == OffsetSum(t.samples, t.start_time, TRUE)
        IN  t.fn = "weigth" =>
              /\ Len(t.weights) = Len(t.samples)
              /\ \A k \in 1..Len(t.samples) :
                     /\ t.end_time # t.start_time
                     /\ t.weights[k][1] * (t.end_time - t.start_time)
                            = (t.samples[k][1] - t.start_time) * t.weights[k][2]
              /\ (t.pc = "done" /\ all > 0) =>
                     t.result[1] * all = 100 * ads * t.result[2]

\* C4 witness: a weighted call finished on samples of both labels with a
\* score strictly between 0 and 100.
C4_Witness ==
    \E i \in DOMAIN task :
        /\ task[i].fn = "weigth" /\ task[i].pc = "done"
        /\ Len(task[i].samples) >= 3
        /\ RGt(task[i].result, RZero) /\ RGt(RHundred, task[i].result)

\* C5: a call for which no sample can be obtained raises nothing and, once
\* finished, has returned 0.0, in the weighted and the unweighted mode.
C5_NoSampleScoresZero ==
    \A i \in DOMAIN task :
        LET t == task[i]
        IN  (t.pc # "queued" /\ NoSample(t)) =>
              /\ t.pc \in {"running", "done"}
              /\ t.exc = None
              /\ t.samples = <<>>
              /\ t.pc = "done" => t.result = RZero

\* C5 witness: a weighted call on a zero-length range finished without a sample.
C5_Witness ==
    \E i \in DOMAIN task :
        /\ task[i].fn = "weigth" /\ task[i].pc = "done"
        /\ task[i].start_time = task[i].end_time
        /\ NoSample(task[i])

\* C6 (as claimed): a weighted call on a zero-length range whose frame at
\* range.start is readable does not raise and returns 0.0.
C6_DegenerateRangeScoresZero ==
    \A i \in DOMAIN task :
        LET t == task[i]
        IN  (t.fn = "weigth" /\ t.start_time = t.end_time
               /\ t.pc # "queued" /\ ~NoSample(t)) =>
              /\ t.pc # "raised"
              /\ t.pc = "done" => t.result = RZero

\* C7 (as claimed): a weighted call that obtained at least one sample returns
\* exactly 100.0 when all its samples are Ad and exactly 0.0 when all are
\* Content.
C7_UniformSceneScore ==
    \A i \in DOMAIN task :
        LET t == task[i]
        IN  (t.fn = "weigth" /\ t.pc = "done" /\ Len(t.samples) >= 1) =>
              /\ AdCount(t.samples) = Len(t.samples) => t.result = RHundred
              /\ AdCount(t.samples) = 0 => t.result = RZero

\* ================================================ properties of the analysis
\* The elements of a sequence.
Range(q) ==
    {q[i] : i \in 1..Len(q)}

\* score >= num / den
AtLeast(score, num, den) ==
    score[1] * den >= num * score[2]

\* The verdict the rule of section 4.5 gives scene i of the score list s,
\* with baseThreshold = 12.5 = 25/2 and baseThreshold - boost = 2.5 = 5/2.
RuleSaysAd(s, i) ==
    LET prevAd == i > 1 /\ AtLeast(s[i - 1], 25, 2)
        nextAd == i < Len(s) /\ AtLeast(s[i + 1], 25, 2)
    IN  IF ~prevAd /\ ~nextAd THEN AtLeast(s[i], 25, 2)
        ELSE AtLeast(s[i], 5, 2)

\* The analysis has returned to Worker.run.
Returned ==
    pc \in {"returned", "emit_result", "finally", "emit_finished", "end"}
    /\ exc = None

\* The score list is the given list of whole numbers.
ScoresAre(q) ==
    /\ Len(scores) = Len(q)
    /\ \A i \in 1..Len(q) : scores[i] = Rat(q[i], 1)

\* C1: the scores are aligned with the scene list; every scene the loop has
\* judged is an ad iff its score meets the effective threshold of the rule; a
\* return with the flag still set has judged every scene; and the worked
\* examples come out as stated.
C1_DecisionRule ==
    (pc = "decide" \/ (Returned /\ Len(scores) > 0)) =>
        /\ Len(scores) = Len(scenes)
        /\ \A i \in 1..Len(scenes) : scores[i] = preds[scenes[i]]
        /\ \A i \in 1..Len(scenes) :
               i < idx => (scenes[i] \in Range(preds_final)
                             <=> RuleSaysAd(scores, i))
        /\ (Returned /\ is_running) =>
               /\ idx = Len(scenes) + 1
               /\ ret = preds_final
               /\ ScoresAre(<<50, 0, 0>>) => ret = <<scenes[1]>>
               /\ ScoresAre(<<20, 13, 5>>) => scenes[1] \in Range(ret)
               /\ ScoresAre(<<3, 20, 3>>) => scenes[1] \in Range(ret)

\* C1 witness: the list [20, 13, 5] judged to the end with the flag set; all
\* three scenes are ads.
C1_Witness ==
    /\ Returned /\ is_running
    /\ ScoresAre(<<20, 13, 5>>)
    /\ ret = scenes

RECURSIVE IsSubseq(_, _)
\* sub is full with some elements left out.
IsSubseq(sub, full) ==
    IF sub = <<>> THEN TRUE
    ELSE IF full = <<>> THEN FALSE
    ELSE IF Head(sub) = Head(full) THEN IsSubseq(Tail(sub), Tail(full))
    ELSE IsSubseq(sub, Tail(full))

NoDup(q) ==
    \A i, j \in 1..Len(q) : q[i] = q[j] => i = j

\* C2: the ad list, while it is built and as it is returned, is a
\* subsequence of the scene list: its ranges are scene ranges, unchanged, in
\* the order of the scene list and without repetition.
C2_AdListIsSubsequence ==
    /\ IsSubseq(preds_final, scenes) /\ NoDup(preds_final)
    /\ IsSubseq(ret, scenes) /\ NoDup(ret)
    /\ (Returned /\ is_running /\ Len(scores) > 0) => ret = preds_final

\* C2 witness: a result emitted by a pool of several threads that keeps some
\* scenes, and more than one, but not all.
C2_Witness ==
    /\ "result" \in Range(emitted)
    /\ max_workers >= 2
    /\ Len(ret) >= 2 /\ Len(ret) < Len(scenes)

\* C8 (as claimed): the score map the parallel processing leaves has exactly
\* the scenes as its keys.
C8_OneEntryPerScene ==
    pc = "check" => DOMAIN preds = Range(scenes)

\* C8 (amended): the score map has the scenes of a prefix of the scene list
\* as its keys, and exactly the scenes when the keep-running flag is still
\* set as the processing ends.
C8_OneEntryPerSceneUnlessStopped ==
    pc = "check" =>
        /\ \E k \in 0..Len(scenes) :
               DOMAIN preds = {scenes[i] : i \in 1..k}
        /\ is_running =>
               /\ DOMAIN preds = Range(scenes)
               /\ Cardinality(DOMAIN preds) = Len(scenes)

\* C8 witness: the map of three scenes scored by a pool of two threads, the
\* flag still set.
C8_Witness ==
    /\ pc = "check" /\ is_running
    /\ Len(scenes) = 3 /\ max_workers = 2
    /\ Cardinality(DOMAIN preds) = 3

RECURSIVE VideoCount(_, _, _)
\* The number of samples (all, or the Ad ones) the source holds for a range:
\* at start, start + interval, ... up to the end of the range or the video,
\* and none when the source cannot be opened by the scoring tasks.
VideoCount(t, end, adOnly) ==
    IF t > end \/ t >= Len(video) \/ ~openable THEN 0
    ELSE VideoCount(t + frame_interval, end, adOnly)
         + (IF adOnly /\ video[t + 1] # AdLabel THEN 0 ELSE 1)

\* The score of a range as the source alone determines it.
VideoScore(r) ==
    IF VideoCount(r[1], r[2], FALSE) = 0 THEN <<0, 1>>
    ELSE <<100 * VideoCount(r[1], r[2], TRUE), VideoCount(r[1], r[2], FALSE)>>

SameValue(a, b) ==
    a[1] * b[2] = b[1] * a[2]

\* C9: whatever the pool size and the interleaving, every score in the map
\* is the one the video determines for its range, and an emitted ad list is
\* the one the rule derives from those scores.
C9_ScoresIndependentOfPool ==
    /\ \A k \in DOMAIN preds :
           k \in Range(scenes) /\ SameValue(preds[k], VideoScore(k))
    /\ "result" \in Range(emitted) =>
           \A i \in 1..Len(scenes) :
               scenes[i] \in Range(ret)
                   <=> RuleSaysAd([j \in 1..Len(scenes) |->
                                      VideoScore(scenes[j])], i)

\* C9 witness: a non-empty result for three scenes from a pool smaller than
\* the scene list.
C9_Witness ==
    /\ "result" \in Range(emitted)
    /\ Len(scenes) = 3 /\ max_workers = 2
    /\ ret # <<>> /\ Len(ret) < 3

\* Some scoring task raised.
TaskFailed ==
    \E i \in DOMAIN task : task[i].pc = "raised"

\* The analysis has ended, by a return or by an exception.
Ended ==
    pc \in {"returned", "emit_result", "raised", "emit_error", "finally",
            "emit_finished", "end"}

\* The exception of the first task, in scene order, that raised.
FirstFailure ==
    LET i == CHOOSE i \in DOMAIN task :
                 /\ task[i].pc = "raised"
                 /\ \A j \in DOMAIN task : task[j].pc = "raised" => i <= j
    IN  task[i].exc

\* C10 (as claimed): when a scoring task failed the analysis ends with an
\* error, and no result is emitted.
C10_FailureSurfaces ==
    (TaskFailed /\ Ended) =>
        /\ exc # None
        /\ "result" \notin Range(emitted)

\* C10 (amended): when a scoring task failed no result is emitted; with the
\* keep-running flag still set the analysis ends with that task's exception
\* and the error signal; it returns normally only after the flag was cleared,
\* and then an empty list from an empty score map.
C10_FailFastUnlessStopped ==
    TaskFailed =>
        /\ "result" \notin Range(emitted)
        /\ (Ended /\ is_running) => exc = FirstFailure
        /\ (pc = "end" /\ is_running) => emitted = <<"error", "finished">>
        /\ (Ended /\ exc = None) =>
               ~is_running /\ ret = <<>> /\ DOMAIN preds = {}

\* C10 witness: one of three tasks raised, its siblings returned scores, and
\* the worker emitted error and finished.
C10_Witness ==
    /\ pc = "end" /\ is_running
    /\ Len(task) = 3
    /\ Cardinality({i \in DOMAIN task : task[i].pc = "raised"}) = 1
    /\ task[1].pc = "done"
    /\ emitted = <<"error", "finished">>

\* The analysis has gone past model_loader.load_model("Swin").
ModelAsked ==
    pc \notin {"idle", "run", "load_model"}

\* C11 (as claimed): when the model could not be loaded the analysis aborts
\* before any scoring: no scoring task is dispatched, no frame is read for
\* classification, and the analysis does not go on to return a list.
C11_LoadFailureAborts ==
    (ModelAsked /\ model_swin = None) =>
        /\ task = <<>>
        /\ pc # "returned"

\* The scoring tasks whose cv2.VideoCapture did not open the source.
Unopened ==
    {i \in DOMAIN task : task[i].pc # "queued" /\ ~task[i].isOpened}

\* C12 (as claimed): when the video source cannot be opened the analysis
\* ends with an error, and a scoring task whose handle failed to open returns
\* no score for its scene.
C12_UnopenedSourceAborts ==
    /\ \A i \in Unopened : task[i].pc # "done"
    /\ (Unopened # {} /\ Ended) => exc # None

\* C13: every scoring task that has started holds a capture object of its
\* own, and no two tasks that run at the same time seek or read on the same
\* capture object.
C13_OwnHandlePerTask ==
    /\ \A i \in DOMAIN task :
           task[i].pc # "queued" => task[i].handle # 0 /\ task[i].cap # "none"
    /\ \A i, j \in Running : i # j => task[i].handle # task[j].handle

\* C13 witness: two tasks run at the same time and both have read and
\* classified a frame on their handles.
C13_Witness ==
    \E i, j \in Running :
        /\ i # j
        /\ task[i].samples # <<>> /\ task[j].samples # <<>>
        /\ task[i].cap = "open" /\ task[j].cap = "open"

\* The analysis thread has left the with block of the pool.
PoolLeft ==
    pc \notin {"idle", "run", "load_model", "detect_scenes", "pool", "submit",
               "collect", "shutdown"}

\* C14: once the analysis has left the parallel part, towards a result or
\* towards an error, every scoring task that was submitted to the pool has
\* finished running.
C14_PoolDrainedBeforeReturn ==
    PoolLeft => \A i \in DOMAIN task : Finished(task[i])

\* C14 witness: three tasks were submitted, one of them failed, the flag was
\* cleared, and the analysis has left the pool with all three finished.
C14_Witness ==
    /\ PoolLeft /\ ~is_running
    /\ Len(task) = 3
    /\ TaskFailed
    /\ \E i \in DOMAIN task : task[i].pc = "done" /\ task[i].samples # <<>>

\* ================================================= properties of the loader
\* C15 (as claimed): after a call of load_model("Swin") has returned a model,
\* every later call returns that same model and constructs none.
C15_LoadedOnce ==
    \A k, l \in DOMAIN loads :
        (k < l /\ loads[k].returned # 0) =>
            /\ loads[l].returned = loads[k].returned
            /\ ~loads[l].constructed

\* ============================================ locality of the decision rule
\* The raw scores the verdict of scene i may depend on: s[i-1], s[i], s[i+1],
\* with <<>> for a neighbour that does not exist.
Window(s, i) ==
    <<IF i > 1 THEN s[i - 1] ELSE <<>>,
      s[i],
      IF i < Len(s) THEN s[i + 1] ELSE <<>>>>

\* A neighbour exists and its raw score is at least baseThreshold (12.5).
HighNeighbour(x) ==
    IF x = <<>> THEN FALSE ELSE AtLeast(x, 25, 2)

\* C16: the verdict of every judged scene is determined by its window of raw
\* scores. With no neighbour scoring at least 12.5 the scene is an ad iff its
\* own score is at least 12.5, also when a neighbour was itself classified as
\* an ad (through the lowered threshold); otherwise iff it is at least 2.5.
C16_VerdictFromRawWindow ==
    (pc = "decide" \/ (Returned /\ Len(scores) > 0)) =>
        \A i \in 1..Len(scores) :
            i < idx =>
                LET w == Window(scores, i)
                    lone == ~HighNeighbour(w[1]) /\ ~HighNeighbour(w[3])
                    isAd == scenes[i] \in Range(preds_final)
                IN  /\ lone => (isAd <=> AtLeast(w[2], 25, 2))
                    /\ ~lone => (isAd <=> AtLeast(w[2], 5, 2))

\* C16 witness: the list [20, 5, 5] judged to the end. Scene 2 is an ad
\* through the lowered threshold; scene 3 has that ad as its only neighbour
\* and the same score, and is not an ad.
C16_Witness ==
    /\ Returned /\ is_running
    /\ ScoresAre(<<20, 5, 5>>)
    /\ ret = <<scenes[1], scenes[2]>>

\* ================================================ the sampling of a range
\* The source gives a frame at tick x to the handle of call t.
Readable(t, x) ==
    t.isOpened /\ x >= 0 /\ x < Len(video)

\* The timestamp of the k-th sample of a range, k counted from 0.
SampleTime(t, k) ==
    t.start_time + k * frame_interval

\* C17: the samples of a call are taken at range.start + k * sampleInterval
\* for k = 0, 1, 2, ... in this order, each within the range and readable; a
\* call that returns has stopped at the first timestamp past range.end or not
\* readable, so a readable timestamp equal to range.end is sampled; a call
\* raises only with a frame in hand, never on end-of-stream; and after
\* end-of-stream inside the range the unweighted score is that of the samples
\* taken before it.
C17_SamplingSchedule ==
    \A i \in DOMAIN task :
        LET t == task[i]
            n == Len(t.samples)
        IN  /\ \A k \in 1..n :
                   /\ t.samples[k][1] = SampleTime(t, k - 1)
                   /\ t.samples[k][1] <= t.end_time
                   /\ Readable(t, t.samples[k][1])
                   /\ t.samples[k][2] = FrameLabel(t.samples[k][1])
            /\ t.pc = "done" =>
                   /\ t.current_time = SampleTime(t, n)
                   /\ SampleTime(t, n) > t.end_time
                          \/ ~Readable(t, SampleTime(t, n))
                   /\ (Readable(t, t.end_time)
                       /\ (t.end_time - t.start_time) % frame_interval = 0) =>
                          (n > 0 /\ t.samples[n][1] = t.end_time)
            /\ t.pc = "raised" =>
                   /\ t.current_time <= t.end_time
                   /\ Readable(t, t.current_time)
            /\ (t.pc = "done" /\ SampleTime(t, n) <= t.end_time
                /\ Unweighted(t)) =>
                   t.result = ad_percentage(AdCount(t.samples), n)

\* C17 witness: a call on the range [0, 4] of a video that ends before tick 4
\* has sampled ticks 0 and 2, met end-of-stream inside the range and returned
\* a score.
C17_Witness ==
    \E i \in DOMAIN task :
        /\ task[i].pc = "done" /\ task[i].exc = None
        /\ task[i].start_time = 0 /\ task[i].end_time = 4
        /\ Len(task[i].samples) = 2
        /\ task[i].samples[2][1] = 2
        /\ ~Readable(task[i], 4)

\* ============================================================ cancellation
\* C18 (as claimed): once the keep-running flag of the worker has been
\* cleared, no step dispatches a further scoring task and no step of a
\* scoring task reads and classifies a further sample.
C18_CancelStopsScoring ==
    [][(pc # "idle" /\ ~is_running) =>
           /\ Len(task') = Len(task)
           /\ \A i \in DOMAIN task :
                  Len(task'[i].samples) = Len(task[i].samples)]_vars

\* ======================================================== handle lifetime
\* C19 (as claimed): a scoring call that has exited, by return or by an
\* exception, has released the handle it opened; after the analysis has
\* ended no handle opened by a scoring task is open.
C19_HandleReleasedOnExit ==
    /\ \A i \in DOMAIN task : Finished(task[i]) => task[i].cap # "open"
    /\ Ended => \A i \in DOMAIN task : task[i].cap # "open"

\* ===================================================== the worker's signals
\* A worker that ran to the end of run() without being stopped has emitted
\* result or error, and then finished, once each.
EmitsOnceThenFinished ==
    (worker # None /\ pc = "end" /\ is_running) =>
        emitted \in {<<"result", "finished">>, <<"error", "finished">>}

\* The buttons are disabled while a Worker thread runs, and are enabled, with
\* the worker reference cleared, once the slot of finished has run; no two
\* Worker threads exist at a time.
OneWorkerAtATime ==
    /\ threads <= 1
    /\ threads > 0 => ~controls /\ worker # None
    /\ (handled > 0 /\ emitted[handled] = "finished") =>
           controls /\ worker = None

\* C20 (as claimed): a worker that is never stopped emits one of result and
\* error and then finished, after which the buttons are enabled again and the
\* worker reference is cleared; the buttons are disabled while a worker runs,
\* so that at most one worker exists; and from the moment a worker is stopped
\* it emits none of result, error and finished.
C20_WorkerSignals ==
    [][/\ EmitsOnceThenFinished
       /\ OneWorkerAtATime
       /\ Closed => emitted' = emitted]_vars

====
